---------------------------- MODULE Spec2Model ----------------------------
(***************************************************************************)
(* cfg-expr, src/expr/mod.rs: the postfix Expression, its evaluator        *)
(* Expression::eval over a Logic, Expression::predicates, and the          *)
(* TargetPredicate matchers.                                               *)
(*                                                                         *)
(* Spec       the parser emits a postfix sequence for a source text it     *)
(*            reads token by token, then eval and predicates are called.   *)
(* SpecMatch  TargetPredicate::matches and ::matches_target are applied    *)
(*            to a predicate and a target drawn from bounded sets.         *)
(*                                                                         *)
(* Values of the two Logic types are written as strings: bool is           *)
(* "true"/"false", Option<bool> is "Some(true)"/"Some(false)"/"None".      *)
(* Option<T> of the target description is <<>> (None) or <<x>> (Some(x)).  *)
(***************************************************************************)
EXTENDS Naturals, Sequences, FiniteSets

VARIABLES
    original,     \* Expression.original, as the sequence of its tokens
    expr,         \* Expression.expr, the postfix buffer
    pstack,       \* parser: the functions whose ")" is still to come
    expect,       \* parser: what the grammar allows next
    pc,           \* "parse" | "parsed" | "done"
    f,            \* eval: the caller's eval_predicate
    logic,        \* eval: the type T, "bool" | "opt"
    result,       \* eval: the value returned ("panic" when an unwrap failed)
    calls,        \* eval: the arguments of the calls of eval_predicate, in order
    trace,        \* eval: the nodes handled, in order
    final_depth,  \* eval: the length of result_stack when the loop ended
    dbg_out,      \* eval: the lines the call wrote to stderr
    plist,        \* predicates: what the last traversal yielded
    mcall         \* matcher: the last call and what it returned

vars == <<original, expr, pstack, expect, pc, f, logic, result, calls, trace,
          final_depth, dbg_out, plist, mcall>>

exprVars == <<original, expr, pstack, expect, pc, f, logic, result, calls,
              trace, final_depth, dbg_out, plist>>

\* The longest postfix sequence the parser is given room for.
MaxNodes == 4

(***************************************************************************)
(* Data model                                                              *)
(***************************************************************************)

\* Predicate<'a>: the resolved predicates of the modelled source texts,
\* `test` and `feature = "a"`.
PredTest == [tag |-> "Test", val |-> ""]

PredFeature(s) == [tag |-> "Feature", val |-> s]

FeatureNames == {"a"}

Predicates == {PredTest} \cup {PredFeature(s) : s \in FeatureNames}

\* InnerPredicate: Test, or Feature(Range<usize>) with the range of the
\* feature's name in the original text.
IPTest == [ip |-> "Test", start |-> 0, end |-> 0]

IPFeature(a, b) == [ip |-> "Feature", start |-> a, end |-> b]

\* ExprNode: Predicate(InnerPredicate) | Fn(Func), Func: Not | All(n) | Any(n)
NodePredicate(p) == [kind |-> "Predicate", pred |-> p, count |-> 0]

NodeFn(func, n) == [kind |-> func, pred |-> IPTest, count |-> n]

\* InnerPredicate::to_pred: a span is resolved by slicing the original text.
to_pred(p, s) ==
    IF p.ip = "Test" THEN PredTest
    ELSE PredFeature(SubSeq(s, p.start + 1, p.end)[1])

(***************************************************************************)
(* Logic                                                                   *)
(***************************************************************************)
BoolValues == {"true", "false"}

OptValues == {"Some(true)", "Some(false)", "None"}

Values(T) == IF T = "bool" THEN BoolValues ELSE OptValues

bool_top == "true"

bool_bottom == "false"

bool_and(self, other) == IF self = "true" THEN other ELSE "false"

\* or written as `self && other`.
bool_or_as_and(self, other) == IF self = "true" THEN other ELSE "false"

bool_or(self, other) == IF self = "true" THEN "true" ELSE other

bool_not(self) == IF self = "true" THEN "false" ELSE "true"

opt_top == "Some(true)"

opt_bottom == "Some(false)"

\* and in which an unknown left operand makes the result unknown.
opt_and_unknown_absorbs(self, other) ==
    IF self = "Some(false)" THEN "Some(false)"
    ELSE IF self = "Some(true)" THEN other
    ELSE "None"

opt_and(self, other) ==
    IF self = "Some(false)" THEN "Some(false)"
    ELSE IF other = "Some(false)" THEN "Some(false)"
    ELSE IF self = "Some(true)" /\ other = "Some(true)" THEN "Some(true)"
    ELSE "None"

\* or that only looks for Some(true) on the left.
opt_or_left_only(self, other) ==
    IF self = "Some(true)" THEN "Some(true)"
    ELSE IF self = "Some(false)" /\ other = "Some(false)" THEN "Some(false)"
    ELSE "None"

opt_or(self, other) ==
    IF self = "Some(true)" THEN "Some(true)"
    ELSE IF other = "Some(true)" THEN "Some(true)"
    ELSE IF self = "Some(false)" /\ other = "Some(false)" THEN "Some(false)"
    ELSE "None"

opt_not(self) ==
    IF self = "Some(true)" THEN "Some(false)"
    ELSE IF self = "Some(false)" THEN "Some(true)"
    ELSE "None"

\* The trait Logic, dispatched on T.
Top(T) == IF T = "bool" THEN bool_top ELSE opt_top

Bottom(T) == IF T = "bool" THEN bool_bottom ELSE opt_bottom

And(T, a, b) == IF T = "bool" THEN bool_and(a, b) ELSE opt_and(a, b)

Or(T, a, b) == IF T = "bool" THEN bool_or(a, b) ELSE opt_or(a, b)

Not(T, a) == IF T = "bool" THEN bool_not(a) ELSE opt_not(a)

(***************************************************************************)
(* Expression::eval                                                        *)
(***************************************************************************)

\* The locals of one call: result_stack, and what the call has done so far.
EvalStart ==
    [stack |-> <<>>, calls |-> <<>>, trace |-> <<>>, out |-> <<>>,
     panicked |-> FALSE]

Panic(st) == [st EXCEPT !.panicked = TRUE]

Event(ev, k) == [ev |-> ev, idx |-> k]

Pop(stack) == SubSeq(stack, 1, Len(stack) - 1)

Peek(stack) == stack[Len(stack)]

\* The Predicate arm short-circuiting: once a false operand is on the
\* stack, the next predicate is not asked.
eval_predicate_arm_lazy(st, node, k, s, ep) ==
    IF st.stack # <<>> /\ Peek(st.stack) \in {"false", "Some(false)"}
    THEN [st EXCEPT !.stack = Append(@, Peek(st.stack)),
                    !.trace = Append(@, Event("call", k))]
    ELSE LET pred == to_pred(node.pred, s)
             v    == ep[pred]
         IN  [st EXCEPT !.stack = Append(@, v),
                        !.calls = Append(@, pred),
                        !.trace = Append(@, Event("call", k)),
                        !.out   = @ \o <<pred.tag, v>>]

\* ExprNode::Predicate arm: resolve, call eval_predicate, push; both dbg!
\* write a line to stderr.
eval_predicate_arm(st, node, k, s, ep) ==
    LET pred == to_pred(node.pred, s)
        v    == ep[pred]
    IN  [st EXCEPT !.stack = Append(@, v),
                   !.calls = Append(@, pred),
                   !.trace = Append(@, Event("call", k)),
                   !.out   = @ \o <<pred.tag, v>>]

\* for _ in 0..count { let r = result_stack.pop().unwrap(); result = result.and(r) }
RECURSIVE all_loop(_, _, _, _)
all_loop(T, acc, stack, n) ==
    IF n = 0 THEN [acc |-> acc, stack |-> stack, ok |-> TRUE]
    ELSE IF stack = <<>> THEN [acc |-> acc, stack |-> stack, ok |-> FALSE]
    ELSE all_loop(T, And(T, acc, Peek(stack)), Pop(stack), n - 1)

\* for _ in 0..count { let r = result_stack.pop().unwrap(); result = result.or(r) }
RECURSIVE any_loop(_, _, _, _)
any_loop(T, acc, stack, n) ==
    IF n = 0 THEN [acc |-> acc, stack |-> stack, ok |-> TRUE]
    ELSE IF stack = <<>> THEN [acc |-> acc, stack |-> stack, ok |-> FALSE]
    ELSE any_loop(T, Or(T, acc, Peek(stack)), Pop(stack), n - 1)

\* The All arm with the loop `0..=count`: one pop too many.
eval_all_arm_inclusive(st, node, k, T) ==
    LET r == all_loop(T, Top(T), st.stack, node.count + 1)
    IN  IF ~r.ok THEN Panic(st)
        ELSE [st EXCEPT !.stack = Append(r.stack, r.acc),
                        !.trace = Append(@, Event("apply", k))]

\* ExprNode::Fn(Func::All(count)) arm
eval_all_arm(st, node, k, T) ==
    LET r == all_loop(T, Top(T), st.stack, node.count)
    IN  IF ~r.ok THEN Panic(st)
        ELSE [st EXCEPT !.stack = Append(r.stack, r.acc),
                        !.trace = Append(@, Event("apply", k))]

\* The Any arm starting from T::top(), as the All arm does.
eval_any_arm_from_top(st, node, k, T) ==
    LET r == any_loop(T, Top(T), st.stack, node.count)
    IN  IF ~r.ok THEN Panic(st)
        ELSE [st EXCEPT !.stack = Append(r.stack, r.acc),
                        !.trace = Append(@, Event("apply", k))]

\* ExprNode::Fn(Func::Any(count)) arm
eval_any_arm(st, node, k, T) ==
    LET r == any_loop(T, Bottom(T), st.stack, node.count)
    IN  IF ~r.ok THEN Panic(st)
        ELSE [st EXCEPT !.stack = Append(r.stack, r.acc),
                        !.trace = Append(@, Event("apply", k))]

\* ExprNode::Fn(Func::Not) arm
eval_not_arm(st, node, k, T) ==
    IF st.stack = <<>> THEN Panic(st)
    ELSE [st EXCEPT !.stack = Append(Pop(st.stack), Not(T, Peek(st.stack))),
                    !.trace = Append(@, Event("apply", k))]

\* match node { ... }
eval_node(st, node, k, s, ep, T) ==
    IF node.kind = "Predicate" THEN eval_predicate_arm(st, node, k, s, ep)
    ELSE IF node.kind = "All" THEN eval_all_arm(st, node, k, T)
    ELSE IF node.kind = "Any" THEN eval_any_arm(st, node, k, T)
    ELSE eval_not_arm(st, node, k, T)

\* for node in self.expr.iter() { ... }, from node k on; a panic ends the call.
RECURSIVE eval_loop(_, _, _, _, _, _)
eval_loop(st, e, k, s, ep, T) ==
    IF k > Len(e) \/ st.panicked THEN st
    ELSE eval_loop(eval_node(st, e[k], k, s, ep, T), e, k + 1, s, ep, T)

\* Expression::eval: the loop, then result_stack.pop().unwrap()
Expression_eval(e, s, ep, T) ==
    LET st == eval_loop(EvalStart, e, 1, s, ep, T)
    IN  [value  |-> IF st.panicked \/ st.stack = <<>> THEN "panic"
                    ELSE Peek(st.stack),
         depth  |-> Len(st.stack),
         calls  |-> st.calls,
         trace  |-> st.trace,
         out    |-> st.out]

(***************************************************************************)
(* Expression::predicates                                                  *)
(***************************************************************************)

\* self.expr.iter().filter_map(...): a predicate node is resolved and
\* yielded, every other node is skipped.
RECURSIVE predicates_from(_, _, _)
predicates_from(e, k, s) ==
    IF k > Len(e) THEN <<>>
    ELSE IF e[k].kind = "Predicate"
         THEN <<to_pred(e[k].pred, s)>> \o predicates_from(e, k + 1, s)
         ELSE predicates_from(e, k + 1, s)

\* The traversal run from the back of the buffer.
RECURSIVE predicates_rev(_, _, _)
predicates_rev(e, k, s) ==
    IF k < 1 THEN <<>>
    ELSE IF e[k].kind = "Predicate"
         THEN <<to_pred(e[k].pred, s)>> \o predicates_rev(e, k - 1, s)
         ELSE predicates_rev(e, k - 1, s)

Expression_predicates_rev(e, s) == predicates_rev(e, Len(e), s)

Expression_predicates(e, s) == predicates_from(e, 1, s)

(***************************************************************************)
(* The parser (src/expr/parser.rs): recursive descent over the grammar     *)
(*   expr := IDENT [ "=" STRING ] | not(expr) | all([expr {, expr}])       *)
(*         | any([expr {, expr}])                                          *)
(* appending to the postfix buffer as it goes.  The text it reads is       *)
(* chosen token by token; `expect` is its position in the grammar:         *)
(*   "expr"   an expression must follow                                    *)
(*   "first"  after "all(" / "any(": an expression or ")"                  *)
(*   "after"  after an operand: "," or ")"                                 *)
(*   "end"    the top-level expression is complete                         *)
(***************************************************************************)
Frame(func) == [func |-> func, count |-> 0]

\* Nodes the buffer holds plus the nodes the open productions still owe.
Owed(e, ps, ex) == Len(e) + Len(ps) + (IF ex = "expr" THEN 1 ELSE 0)

\* An operand is complete: the enclosing function counts it.
Completed(ps) ==
    IF ps = <<>> THEN ps
    ELSE [ps EXCEPT ![Len(ps)].count = @ + 1]

AfterOperand(ps) == IF ps = <<>> THEN "end" ELSE "after"

\* predicate := `test`
ParseTest ==
    /\ pc = "parse"
    /\ expect \in {"expr", "first"}
    /\ Owed(Append(expr, NodePredicate(IPTest)), pstack, "after") <= MaxNodes
    /\ original' = Append(original, "test")
    /\ expr' = Append(expr, NodePredicate(IPTest))
    /\ pstack' = Completed(pstack)
    /\ expect' = AfterOperand(pstack)
    /\ UNCHANGED <<pc, f, logic, result, calls, trace, final_depth, dbg_out,
                   plist, mcall>>

\* predicate := `feature = "<name>"`, the node keeps the span of the name
ParseFeature(name) ==
    /\ pc = "parse"
    /\ expect \in {"expr", "first"}
    /\ LET node == NodePredicate(IPFeature(Len(original) + 2, Len(original) + 3))
       IN  /\ Owed(Append(expr, node), pstack, "after") <= MaxNodes
           /\ expr' = Append(expr, node)
    /\ original' = original \o <<"feature", "=", name>>
    /\ pstack' = Completed(pstack)
    /\ expect' = AfterOperand(pstack)
    /\ UNCHANGED <<pc, f, logic, result, calls, trace, final_depth, dbg_out,
                   plist, mcall>>

\* the identifier a function is written with
FnToken(func) ==
    IF func = "Not" THEN "not" ELSE IF func = "All" THEN "all" ELSE "any"

\* function := func "(" : the operands are parsed before the node is emitted
ParseFnOpen(func) ==
    /\ pc = "parse"
    /\ expect \in {"expr", "first"}
    /\ LET ex == IF func = "Not" THEN "expr" ELSE "first"
       IN  /\ Owed(expr, Append(pstack, Frame(func)), ex) <= MaxNodes
           /\ expect' = ex
    /\ original' = original \o <<FnToken(func), "(">>
    /\ pstack' = Append(pstack, Frame(func))
    /\ UNCHANGED <<expr, pc, f, logic, result, calls, trace, final_depth,
                   dbg_out, plist, mcall>>

\* "," between the operands of all() / any()
ParseComma ==
    /\ pc = "parse"
    /\ expect = "after"
    /\ Peek(pstack).func # "Not"
    /\ Owed(expr, pstack, "expr") <= MaxNodes
    /\ original' = Append(original, ",")
    /\ expect' = "expr"
    /\ UNCHANGED <<expr, pstack, pc, f, logic, result, calls, trace,
                   final_depth, dbg_out, plist, mcall>>

\* ")" : the combinator node is appended with the operand count observed
ParseFnClose ==
    /\ pc = "parse"
    /\ expect \in {"first", "after"}
    /\ LET fr == Peek(pstack)
       IN  expr' = Append(expr, NodeFn(fr.func,
                                       IF fr.func = "Not" THEN 0 ELSE fr.count))
    /\ original' = Append(original, ")")
    /\ pstack' = Completed(Pop(pstack))
    /\ expect' = AfterOperand(Pop(pstack))
    /\ UNCHANGED <<pc, f, logic, result, calls, trace, final_depth, dbg_out,
                   plist, mcall>>

\* end of input after one top-level expression: the Expression exists
ParseEnd ==
    /\ pc = "parse"
    /\ expect = "end"
    /\ pc' = "parsed"
    /\ UNCHANGED <<original, expr, pstack, expect, f, logic, result, calls,
                   trace, final_depth, dbg_out, plist, mcall>>

(***************************************************************************)
(* Calls on the parsed Expression                                          *)
(***************************************************************************)
Logics == {"bool", "opt"}

\* What one call of eval leaves behind.
EvalCall(T, ep) ==
    /\ LET r == Expression_eval(expr, original, ep, T)
       IN  /\ result' = r.value
           /\ calls' = r.calls
           /\ trace' = r.trace
           /\ final_depth' = r.depth
           /\ dbg_out' = r.out
    /\ f' = ep
    /\ logic' = T
    /\ pc' = "done"
    /\ UNCHANGED <<original, expr, pstack, expect, plist, mcall>>

\* expr.eval(ep) with T = the type ep returns
Eval(T, ep) ==
    /\ pc = "parsed"
    /\ EvalCall(T, ep)

\* expr.eval(ep) once more, with the same ep
EvalAgain ==
    /\ pc = "done"
    /\ EvalCall(logic, f)

\* expr.predicates().collect()
PredicatesCall ==
    /\ pc \in {"parsed", "done"}
    /\ plist' = <<"yielded", Expression_predicates(expr, original)>>
    /\ UNCHANGED <<original, expr, pstack, expect, pc, f, logic, result,
                   calls, trace, final_depth, dbg_out, mcall>>

(***************************************************************************)
(* TargetPredicate                                                         *)
(* A predicate is [which, val]; val is the name for Arch, Env, Os and      *)
(* Vendor, "little"/"big" for Endian, "unix"/"windows" for Family and the  *)
(* number of bits for PointerWidth.                                        *)
(***************************************************************************)
TP(which, val) == [which |-> which, val |-> val]

Some(x) == <<x>>

None == <<>>

\* The Env arm as plain equality with the optional field.
matches_env_strict(env, target) == Some(env) = target.env

\* TargetPredicate::matches, the Env arm: the environment is allowed to be
\* an empty string
matches_env(env, target) ==
    IF target.env # None THEN env = target.env[1]
    ELSE env = ""

\* TargetPredicate::matches
matches(self, target) ==
    IF self.which = "Arch" THEN self.val = target.arch
    ELSE IF self.which = "Endian" THEN self.val = target.endian
    ELSE IF self.which = "Env" THEN matches_env(self.val, target)
    ELSE IF self.which = "Family" THEN Some(self.val) = target.family
    ELSE IF self.which = "Os" THEN Some(self.val) = target.os
    ELSE IF self.which = "PointerWidth" THEN self.val = target.pointer_width
    ELSE Some(self.val) = target.vendor

(***************************************************************************)
(* target_lexicon, as matches_target uses it.  A variant is written by the *)
(* name its FromStr accepts; a Result is <<>> (Err) or <<x>> (Ok(x)).      *)
(* A Triple is [architecture, vendor, operating_system, environment] with  *)
(* what its endianness and pointer-width queries return.                   *)
(***************************************************************************)

\* Architecture: Unknown, X86_32(I386), X86_32(I686), X86_64, Powerpc
Architecture == {"unknown", "i386", "i686", "x86_64", "powerpc"}

X86_32 == {"i386", "i686"}

\* Environment; Gnueabihf is a variant of the enumeration as well as the
\* five gnu variants the Env arm names.
Environment ==
    {"unknown", "android", "gnu", "gnuabi64", "gnueabi", "gnueabihf",
     "gnuspe", "gnux32", "musl", "msvc"}

\* OperatingSystem
OperatingSystem == {"unknown", "darwin", "linux", "windows"}

\* Vendor
Vendor == {"unknown", "pc"}

\* str::parse::<X>(): Ok(variant) for the name of a variant, else Err
Parse(str, variants) == IF str \in variants THEN <<str>> ELSE <<>>

\* the table of the Family arm: the OperatingSystem's family
FamilyOf(os) ==
    IF os \in {"unknown"} THEN None
    ELSE IF os \in {"darwin", "linux"} THEN Some("unix")
    ELSE IF os = "windows" THEN Some("windows")
    ELSE None

\* TargetPredicate::matches_target, the Env arm
matches_target_env(env, target) ==
    IF env = "" THEN target.environment = "unknown"
    ELSE LET e == Parse(env, Environment)
         IN  IF e # <<>> THEN
                 IF env = "gnu"
                 THEN target.environment \in
                          {"gnu", "gnuabi64", "gnueabi", "gnuspe", "gnux32"}
                 ELSE target.environment = e[1]
             ELSE FALSE

\* The PointerWidth arm without the gnux32 case.
matches_target_pointer_width_natural(pw, target) ==
    IF target.pointer_width # <<>>
    THEN pw = target.pointer_width[1]
    ELSE FALSE

\* TargetPredicate::matches_target, the PointerWidth arm
matches_target_pointer_width(pw, target) ==
    IF target.environment # "gnux32"
    THEN IF target.pointer_width # <<>>
         THEN pw = target.pointer_width[1]
         ELSE FALSE
    ELSE pw = 32

\* TargetPredicate::matches_target
matches_target(self, target) ==
    IF self.which = "Arch" THEN
        IF self.val = "x86" THEN target.architecture \in X86_32
        ELSE LET a == Parse(self.val, Architecture)
             IN  IF a # <<>> THEN target.architecture = a[1] ELSE FALSE
    ELSE IF self.which = "Endian" THEN
        IF target.endianness # <<>>
        THEN \/ self.val = "little" /\ target.endianness[1] = "Little"
             \/ self.val = "big" /\ target.endianness[1] = "Big"
        ELSE FALSE
    ELSE IF self.which = "Env" THEN matches_target_env(self.val, target)
    ELSE IF self.which = "Family" THEN
        Some(self.val) = FamilyOf(target.operating_system)
    ELSE IF self.which = "Os" THEN
        LET o == Parse(self.val, OperatingSystem)
        IN  IF o # <<>> THEN target.operating_system = o[1]
            ELSE IF self.val = "macos" /\ target.operating_system = "darwin"
                 THEN TRUE
                 ELSE /\ self.val = "android"
                      /\ target.operating_system = "linux"
                      /\ target.environment = "android"
    ELSE IF self.which = "Vendor" THEN
        LET v == Parse(self.val, Vendor)
        IN  IF v # <<>> THEN target.vendor = v[1] ELSE FALSE
    ELSE matches_target_pointer_width(self.val, target)

\* The predicates and targets the matchers are applied to.
Whiches == {"Arch", "Endian", "Env", "Family", "Os", "PointerWidth", "Vendor"}

PredValues(which) ==
    IF which = "Arch" THEN {"x86", "x86_64", "bogus"}
    ELSE IF which = "Endian" THEN {"little", "big"}
    ELSE IF which = "Env" THEN {"", "gnu", "musl", "bogus"}
    ELSE IF which = "Family" THEN {"unix", "windows"}
    ELSE IF which = "Os" THEN {"linux", "macos", "android", "windows"}
    ELSE IF which = "PointerWidth" THEN {16, 32, 64}
    ELSE {"pc", "bogus"}

Opt(S) == {None} \cup {Some(x) : x \in S}

\* targets::TargetInfo
TargetInfos ==
    [arch : {"x86", "x86_64"},
     endian : {"little", "big"},
     env : Opt({"", "gnu", "musl"}),
     family : Opt({"unix", "windows"}),
     os : Opt({"linux", "windows"}),
     pointer_width : {32, 64},
     vendor : Opt({"pc"})]

\* target_lexicon::Triple
Triples ==
    [architecture : {"unknown", "i686", "x86_64"},
     vendor : Vendor,
     operating_system : OperatingSystem,
     environment : Environment,
     endianness : {<<>>, <<"Little">>, <<"Big">>},
     pointer_width : {<<>>, <<32>>, <<64>>}]

NoCall == [op |-> "none"]

\* pred.matches(&target)
Matches ==
    /\ mcall = NoCall
    /\ \E which \in Whiches : \E val \in PredValues(which) :
           \E target \in TargetInfos :
               mcall' = [op |-> "matches", pred |-> TP(which, val),
                         target |-> target,
                         result |-> matches(TP(which, val), target)]
    /\ UNCHANGED exprVars

\* pred.matches_target(&triple)
MatchesTarget ==
    /\ mcall = NoCall
    /\ \E which \in Whiches : \E val \in PredValues(which) :
           \E triple \in Triples :
               mcall' = [op |-> "matches_target", pred |-> TP(which, val),
                         target |-> triple,
                         result |-> matches_target(TP(which, val), triple)]
    /\ UNCHANGED exprVars

Init ==
    /\ original = <<>>
    /\ expr = <<>>
    /\ pstack = <<>>
    /\ expect = "expr"
    /\ pc = "parse"
    /\ f = [p \in Predicates |-> "false"]
    /\ logic = "bool"
    /\ result = "none"
    /\ calls = <<>>
    /\ trace = <<>>
    /\ final_depth = 0
    /\ dbg_out = <<>>
    /\ plist = <<"none", <<>>>>
    /\ mcall = NoCall

Next ==
    \/ ParseTest
    \/ \E name \in FeatureNames : ParseFeature(name)
    \/ \E func \in {"Not", "All", "Any"} : ParseFnOpen(func)
    \/ ParseComma
    \/ ParseFnClose
    \/ ParseEnd
    \/ \E T \in Logics : \E ep \in [Predicates -> Values(T)] : Eval(T, ep)
    \/ EvalAgain
    \/ PredicatesCall

Spec == Init /\ [][Next]_vars

NextMatch ==
    \/ Matches
    \/ MatchesTarget

SpecMatch == Init /\ [][NextMatch]_vars

(***************************************************************************)
(* Properties of eval and predicates, checked under Spec                   *)
(***************************************************************************)

\* The atomic predicates written in a source text, left to right.
RECURSIVE SourceFrom(_, _)
SourceFrom(s, i) ==
    IF i > Len(s) THEN <<>>
    ELSE IF s[i] = "test" THEN <<PredTest>> \o SourceFrom(s, i + 1)
    ELSE IF s[i] = "feature"
         THEN <<PredFeature(s[i + 2])>> \o SourceFrom(s, i + 3)
         ELSE SourceFrom(s, i + 1)

SourcePredicates(s) == SourceFrom(s, 1)

\* The operands of node k of a postfix sequence are the nodes
\* OperandsStart(e, k) .. k - 1.
Arity(node) ==
    IF node.kind = "Predicate" THEN 0
    ELSE IF node.kind = "Not" THEN 1
    ELSE node.count

RECURSIVE OperandsStart(_, _)
RECURSIVE SkipBack(_, _, _)
OperandsStart(e, k) == SkipBack(e, k - 1, Arity(e[k]))

SkipBack(e, j, n) ==
    IF n = 0 THEN j + 1
    ELSE SkipBack(e, OperandsStart(e, j) - 1, n - 1)

IsFn(node) == node.kind \in {"Not", "All", "Any"}

\* C1: for every postfix sequence the parser emits, eval never unwraps an
\* empty result stack at a Not, All(n) or Any(n) node, and when the loop
\* ends exactly one value is on the stack, which is the value returned.
EvalLeavesOneValue ==
    pc = "done" =>
        /\ result # "panic"
        /\ final_depth = 1
        /\ result \in Values(logic)
        /\ Len(trace) = Len(expr)

\* an evaluated expression that nests a zero-operand all()/any() under not()
EvalNestedWitness ==
    /\ pc = "done"
    /\ Len(expr) >= 4
    /\ \E k \in 1..Len(expr) : expr[k].kind = "Not"
    /\ \E k \in 1..Len(expr) : expr[k].kind \in {"All", "Any"} /\ expr[k].count = 0
    /\ \E k \in 1..Len(expr) : expr[k].kind \in {"All", "Any"} /\ expr[k].count = 2
    /\ result \in Values(logic)

\* C2: in one call of eval the predicate function is called exactly once
\* per atomic predicate of the source, in left-to-right source order,
\* whatever it returns, and a combinator is applied only after every node
\* of its operands has been handled.
PredicatesCalledOnceInOrder ==
    pc = "done" =>
        /\ calls = SourcePredicates(original)
        /\ \A j \in 1..Len(trace) :
               /\ trace[j].ev = "call" <=> ~IsFn(expr[trace[j].idx])
               /\ \A i \in 1..(j - 1) : trace[i].idx # trace[j].idx
               /\ \A m \in OperandsStart(expr, trace[j].idx)..(trace[j].idx - 1) :
                      \E i \in 1..(j - 1) : trace[i].idx = m
        /\ \A k \in 1..Len(expr) : \E j \in 1..Len(trace) : trace[j].idx = k

\* all(test, feature = "a") style: a false first operand, and the second
\* operand was still asked
NoShortCircuitWitness ==
    /\ pc = "done"
    /\ Len(calls) >= 2
    /\ calls[1] # calls[2]
    /\ f[calls[1]] \in {"false", "Some(false)"}
    /\ \E k \in 1..Len(expr) : expr[k].kind = "All" /\ expr[k].count >= 2

\* C3: all() with no operands evaluates to top and any() with no operands
\* to bottom, for every predicate function: true / false under bool,
\* Some(true) / Some(false) under Option<bool>.
ZeroOperandIdentity ==
    pc = "done" =>
        /\ expr = <<NodeFn("All", 0)>> =>
               result = (IF logic = "bool" THEN "true" ELSE "Some(true)")
        /\ expr = <<NodeFn("Any", 0)>> =>
               result = (IF logic = "bool" THEN "false" ELSE "Some(false)")

\* any() evaluated under Option<bool>
ZeroOperandWitness ==
    /\ pc = "done"
    /\ original = <<"any", "(", ")">>
    /\ expr = <<NodeFn("Any", 0)>>
    /\ logic = "opt"
    /\ result = "Some(false)"

\* Kleene's strong three-valued logic: false < unknown < true, and is the
\* minimum, or the maximum, not the mirror image.
Rank(v) == IF v = "Some(false)" THEN 0 ELSE IF v = "None" THEN 1 ELSE 2

Unrank(n) == IF n = 0 THEN "Some(false)" ELSE IF n = 1 THEN "None" ELSE "Some(true)"

Min(a, b) == IF a <= b THEN a ELSE b

Max(a, b) == IF a >= b THEN a ELSE b

\* the expression is any(A, B) with two atomic predicates
IsAnyOfTwo ==
    /\ Len(expr) = 3
    /\ expr[1].kind = "Predicate"
    /\ expr[2].kind = "Predicate"
    /\ expr[3] = NodeFn("Any", 2)

\* C4: the Option<bool> logic has the Kleene truth tables on all 9 operand
\* pairs, not flips Some(true)/Some(false) and keeps None, top is
\* Some(true) and bottom Some(false); so any(A, B) is Some(true) when f
\* gives None for A and Some(true) for B, and None when f gives None for
\* both.
KleeneTables ==
    /\ \A a \in OptValues : \A b \in OptValues :
           /\ opt_and(a, b) = Unrank(Min(Rank(a), Rank(b)))
           /\ opt_or(a, b) = Unrank(Max(Rank(a), Rank(b)))
    /\ \A a \in OptValues : opt_not(a) = Unrank(2 - Rank(a))
    /\ opt_top = "Some(true)"
    /\ opt_bottom = "Some(false)"
    /\ (pc = "done" /\ logic = "opt" /\ IsAnyOfTwo) =>
           LET A == SourcePredicates(original)[1]
               B == SourcePredicates(original)[2]
           IN  /\ (f[A] = "None" /\ f[B] = "Some(true)") => result = "Some(true)"
               /\ (f[A] = "None" /\ f[B] = "None") => result = "None"
               /\ result = Unrank(Max(Rank(f[A]), Rank(f[B])))

\* any(test, feature = "a") with f unknown on the first and true on the second
KleeneAnyWitness ==
    /\ pc = "done"
    /\ logic = "opt"
    /\ IsAnyOfTwo
    /\ SourcePredicates(original) = <<PredTest, PredFeature("a")>>
    /\ f[PredTest] = "None"
    /\ f[PredFeature("a")] = "Some(true)"
    /\ result = "Some(true)"

\* The source text and the postfix sequence of all(not(A), not(B)) and of
\* not(any(A, B)), as the parser emits them for atomic predicates A and B.
AtomTokens(p) ==
    IF p = PredTest THEN <<"test">> ELSE <<"feature", "=", p.val>>

AtomNode(p, offset) ==
    IF p = PredTest THEN NodePredicate(IPTest)
    ELSE NodePredicate(IPFeature(offset + 2, offset + 3))

AllNotText(A, B) ==
    <<"all", "(", "not", "(">> \o AtomTokens(A) \o <<")", ",", "not", "(">>
        \o AtomTokens(B) \o <<")", ")">>

AllNotExpr(A, B) ==
    <<AtomNode(A, 4), NodeFn("Not", 0),
      AtomNode(B, 4 + Len(AtomTokens(A)) + 4), NodeFn("Not", 0),
      NodeFn("All", 2)>>

NotAnyText(A, B) ==
    <<"not", "(", "any", "(">> \o AtomTokens(A) \o <<",">> \o AtomTokens(B)
        \o <<")", ")">>

NotAnyExpr(A, B) ==
    <<AtomNode(A, 4), AtomNode(B, 4 + Len(AtomTokens(A)) + 1),
      NodeFn("Any", 2), NodeFn("Not", 0)>>

\* C5: under bool, for all atomic predicates A and B and every f,
\* all(not(A), not(B)) and not(any(A, B)) evaluate to the same value:
\* whichever of the two the evaluated expression is, the other one
\* evaluates to the value returned.
DeMorgan ==
    (pc = "done" /\ logic = "bool") =>
        \A A \in Predicates : \A B \in Predicates :
            /\ (original = NotAnyText(A, B) /\ expr = NotAnyExpr(A, B)) =>
                   result = Expression_eval(AllNotExpr(A, B), AllNotText(A, B),
                                            f, "bool").value
            /\ (original = AllNotText(A, B) /\ expr = AllNotExpr(A, B)) =>
                   result = Expression_eval(NotAnyExpr(A, B), NotAnyText(A, B),
                                            f, "bool").value

\* not(any(test, feature = "a")) evaluated with f true on exactly one of them
DeMorganWitness ==
    /\ pc = "done"
    /\ logic = "bool"
    /\ original = NotAnyText(PredTest, PredFeature("a"))
    /\ expr = NotAnyExpr(PredTest, PredFeature("a"))
    /\ f[PredTest] = "false"
    /\ f[PredFeature("a")] = "true"
    /\ result = "false"

\* C6: predicates() yields one resolved predicate per predicate node, in the
\* order the atomic predicates are written in the source text, skipping the
\* combinators; every call yields that same sequence, before and after eval.
PredicatesInSourceOrder ==
    plist[1] = "yielded" =>
        /\ plist[2] = SourcePredicates(original)
        /\ Len(plist[2]) = Cardinality({k \in 1..Len(expr) : ~IsFn(expr[k])})

\* two different predicates under a combinator, traversed after an eval
PredicatesWitness ==
    /\ pc = "done"
    /\ plist[1] = "yielded"
    /\ Len(plist[2]) = 2
    /\ plist[2][1] # plist[2][2]
    /\ Len(expr) > 2

\* C10: eval is pure: a call writes nothing to an output stream and leaves
\* the Expression's text and postfix sequence as they were, and a repeated
\* call with the same f returns the same value.
EvalIsPure ==
    [][(pc' = "done" /\ plist' = plist) =>
           /\ dbg_out' = <<>>
           /\ original' = original
           /\ expr' = expr
           /\ (pc = "done" /\ f' = f /\ logic' = logic) => result' = result]_vars

(***************************************************************************)
(* Properties of the matchers, checked under SpecMatch                     *)
(***************************************************************************)

\* The field of the target description a predicate is about, Some(x) for a
\* field that is always set.
FieldOf(which, target) ==
    IF which = "Arch" THEN Some(target.arch)
    ELSE IF which = "Endian" THEN Some(target.endian)
    ELSE IF which = "Env" THEN target.env
    ELSE IF which = "Family" THEN target.family
    ELSE IF which = "Os" THEN target.os
    ELSE IF which = "PointerWidth" THEN Some(target.pointer_width)
    ELSE target.vendor

\* C7: matches is equality of the predicate's value with the target's
\* field, an unset field matching nothing, except that an environment
\* predicate with the empty string matches a target with no environment.
MatchesIsEquality ==
    mcall.op = "matches" =>
        (mcall.result <=>
            \/ FieldOf(mcall.pred.which, mcall.target) = Some(mcall.pred.val)
            \/ /\ mcall.pred.which = "Env"
               /\ mcall.pred.val = ""
               /\ mcall.target.env = None)

\* target_env = "" matched against a target with no environment
MatchesEmptyEnvWitness ==
    /\ mcall.op = "matches"
    /\ mcall.pred.which = "Env"
    /\ mcall.pred.val = ""
    /\ mcall.target.env = None
    /\ mcall.result

\* The Environment variants whose name begins with gnu.
GnuEnvironments ==
    {"gnu", "gnuabi64", "gnueabi", "gnueabihf", "gnuspe", "gnux32"}

\* C8: in matches_target an environment predicate "gnu" matches every
\* Environment variant whose name begins with gnu.
GnuMatchesEveryGnuVariant ==
    (/\ mcall.op = "matches_target"
     /\ mcall.pred.which = "Env"
     /\ mcall.pred.val = "gnu"
     /\ mcall.target.environment \in GnuEnvironments) => mcall.result

\* C9: in matches_target, against a Gnux32 triple a pointer-width predicate
\* matches iff its width is 32, whatever the width query returns; against
\* any other environment it matches iff the query succeeds with that width.
PointerWidthGnux32 ==
    (mcall.op = "matches_target" /\ mcall.pred.which = "PointerWidth") =>
        (mcall.result <=>
            IF mcall.target.environment = "gnux32"
            THEN mcall.pred.val = 32
            ELSE mcall.target.pointer_width = <<mcall.pred.val>>)

\* target_pointer_width = "32" against a gnux32 triple whose query says 64
PointerWidthGnux32Witness ==
    /\ mcall.op = "matches_target"
    /\ mcall.pred.which = "PointerWidth"
    /\ mcall.pred.val = 32
    /\ mcall.target.environment = "gnux32"
    /\ mcall.target.pointer_width = <<64>>
    /\ mcall.result

(***************************************************************************)
(* The folds of the All and Any arms, checked under Spec                   *)
(***************************************************************************)

\* The values of the n operands that end at node j, in source order: each
\* operand is the postfix sequence of a sub-expression of the same text.
RECURSIVE OperandValues(_, _, _, _, _, _)
OperandValues(e, j, n, s, ep, T) ==
    IF n = 0 THEN <<>>
    ELSE LET a == OperandsStart(e, j)
         IN  OperandValues(e, a - 1, n - 1, s, ep, T)
                 \o <<Expression_eval(SubSeq(e, a, j), s, ep, T).value>>

Identity(T, kind) == IF kind = "All" THEN Top(T) ELSE Bottom(T)

Combine(T, kind, a, b) == IF kind = "All" THEN And(T, a, b) ELSE Or(T, a, b)

\* (((id op v_n) op v_(n-1)) ... op v_1)
RECURSIVE ReverseFold(_, _, _, _)
ReverseFold(T, kind, acc, vals) ==
    IF vals = <<>> THEN acc
    ELSE ReverseFold(T, kind, Combine(T, kind, acc, vals[Len(vals)]),
                     SubSeq(vals, 1, Len(vals) - 1))

\* (((id op v_1) op v_2) ... op v_n)
RECURSIVE LeftFold(_, _, _, _)
LeftFold(T, kind, acc, vals) ==
    IF vals = <<>> THEN acc
    ELSE LeftFold(T, kind, Combine(T, kind, acc, Head(vals)), Tail(vals))

TopNode == expr[Len(expr)]

TopOperandValues ==
    OperandValues(expr, Len(expr) - 1, TopNode.count, original, f, logic)

\* C11: an All(n) node yields (((top and v_n) and v_(n-1)) ... and v_1) for
\* the operand values v_1..v_n in source order, an Any(n) node the same with
\* bottom and or; under bool and Option<bool> that is the value of the
\* left-to-right fold of the operands in source order.
FoldsInReverseOrder ==
    (pc = "done" /\ TopNode.kind \in {"All", "Any"}) =>
        LET vals == TopOperandValues
            id   == Identity(logic, TopNode.kind)
        IN  /\ Len(vals) = TopNode.count
            /\ result = ReverseFold(logic, TopNode.kind, id, vals)
            /\ result = LeftFold(logic, TopNode.kind, id, vals)

\* all(..) of three operands whose values are unknown, false and true, in
\* that order
FoldThreeValuesWitness ==
    /\ pc = "done"
    /\ logic = "opt"
    /\ TopNode = NodeFn("All", 3)
    /\ TopOperandValues = <<"None", "Some(false)", "Some(true)">>
    /\ result = "Some(false)"

=============================================================================
